---------------------------- MODULE Spec2Model ----------------------------
(***************************************************************************)
(* A model of the client side of the AI virtual assistant:                 *)
(*   - AssistantClient._make_request, the retrying HTTP transport          *)
(*     (src/src/common/assistant_client.py);                               *)
(*   - Datastore and MockDatabaseClient, the conversation store            *)
(*     (src/src/agent/datastore/datastore.py);                             *)
(*   - DataRobotEmbeddingsClient.embed_documents and                       *)
(*     DataRobotRerankClient.rerank, the inference adapters                *)
(*     (src/src/common/datarobot_client.py).                               *)
(* Each component has its own specification over the shared variables; the *)
(* components do not interact, so a specification leaves the variables of  *)
(* the other components unchanged.                                         *)
(***************************************************************************)
EXTENDS Integers, Sequences, FiniteSets, TLC

VARIABLES
    \* ---- AssistantClient ----
    tPc,            \* position of the caller inside _make_request
    retry_attempts, \* self.config.retry_attempts
    jsonIsReqExc,   \* the installed requests raises its own JSONDecodeError
    attempt,        \* the loop variable of `for attempt in range(...)`
    exc,            \* the exception bound to `e` in the except clause
    tLog,           \* what the call did so far: requests, warnings, sleeps
    tRet,           \* how the call ended: the value returned or the error raised
    calls,          \* number of _make_request calls started on this client
    \* ---- Datastore ----
    dPc,            \* "new" | "constructed" | "raised"
    db_name,        \* get_config().database.name
    database,       \* self.database: the backend selected
    conversations,  \* MockDatabaseClient.conversations: session id -> record
    supplied,       \* ghost: per session id, what the last store/delete left
    dCall,          \* the last operation a caller ran and what it got back
    \* ---- DataRobotEmbeddingsClient ----
    ePc,            \* position inside embed_documents
    texts,          \* the argument of embed_documents
    eI,             \* number of texts the loop has taken
    embeddings,     \* the local list `embeddings`
    ePredLog,       \* ghost: each prediction call, its text and what came back
    eRet,           \* how embed_documents ended
    qPc,            \* position inside embed_query
    qText,          \* the argument of embed_query
    qRet,           \* how embed_query ended
    \* ---- DataRobotRerankClient ----
    rPc,            \* position inside rerank
    documents,      \* the argument `documents`
    top_k,          \* the argument `top_k` (given or None)
    rI,             \* number of documents the loop has taken
    results,        \* the local list `results`
    rPredLog,       \* ghost: the prediction that came back for each document
    rRet,           \* how rerank ended
    \* ---- DataRobotRerank (document compressor) ----
    cPc,            \* position inside compress_documents
    cDocs,          \* the argument `documents`: Document objects
    top_n,          \* self.top_n
    cRerank,        \* ghost: how the rerank call inside ended
    cRet,           \* what compress_documents returned
    \* ---- DataRobotLLMClient and DataRobotChatModel ----
    lPc,            \* position inside DataRobotLLMClient.chat / predict
    messages,       \* the argument of chat: a list of role/content dicts
    prompt,         \* the prompt chat hands to predict
    lPred,          \* ghost: what self._deployment.predict came back with
    lRet,           \* how chat ended
    gPc,            \* position inside DataRobotChatModel._generate
    lcMessages,     \* the argument of _generate / _stream: message objects
    gRet,           \* how _generate ended
    sPc,            \* state of the generator that _stream returns
    sItems,         \* the items the generator has produced
    \* ---- construction of the three DataRobot clients ----
    kPc,            \* per client class: position inside __init__
    kConfig,        \* per client class: config.deployment_id
    kDeployment,    \* per client class: self._deployment
    kRef,           \* per client class: the caller holds the constructed object
    kUses,          \* per client class: predict/embed/rerank calls made on it
    kBadUse,        \* ghost: some call ran with a deployment that is None
    \* ---- AssistantClient operations and their callers ----
    aPc,            \* position inside an AssistantClient operation
    aOp,            \* the operation called
    aSession,       \* its session_id argument
    aContext,       \* its context argument
    aReq,           \* what it passed to _make_request
    aRet,           \* how the operation ended
    uPc,            \* position inside quick_chat
    uRet,           \* how quick_chat ended
    xPc,            \* position inside main of the command-line tool
    xCmd,           \* args.command
    xArg,           \* the command's own arguments: --session, --context
    xExit,          \* the exit code main returned
    xFailed,        \* ghost: a service call made by the command failed
    iPc             \* position inside interactive_chat

tvars == <<tPc, retry_attempts, jsonIsReqExc, attempt, exc, tLog, tRet, calls>>
dvars == <<dPc, db_name, database, conversations, supplied, dCall>>
evars == <<ePc, texts, eI, embeddings, ePredLog, eRet>>
rvars == <<rPc, documents, top_k, rI, results, rPredLog, rRet>>
cvars == <<cPc, cDocs, top_n, cRerank, cRet>>
qvars == <<qPc, qText, qRet>>
lvars == <<lPc, messages, prompt, lPred, lRet, gPc, lcMessages, gRet, sPc, sItems>>
kvars == <<kPc, kConfig, kDeployment, kRef, kUses, kBadUse>>
avars == <<aPc, aOp, aSession, aContext, aReq, aRet, uPc, uRet,
           xPc, xCmd, xArg, xExit, xFailed, iPc>>
vars  == <<tvars, dvars, evars, qvars, rvars, cvars, lvars, kvars, avars>>
\* What a component's actions leave alone: the other components.
notT == <<dvars, evars, qvars, rvars, cvars, lvars, kvars, avars>>
notD == <<tvars, evars, qvars, rvars, cvars, lvars, kvars, avars>>
notE == <<tvars, dvars, qvars, rvars, cvars, lvars, kvars, avars>>
notEQ == <<tvars, dvars, rvars, cvars, lvars, kvars, avars>>
notR == <<tvars, dvars, evars, qvars, cvars, lvars, kvars, avars>>
notRC == <<tvars, dvars, evars, qvars, lvars, kvars, avars>>
notL == <<tvars, dvars, evars, qvars, rvars, cvars, kvars, avars>>
notK == <<tvars, dvars, evars, qvars, rvars, cvars, lvars, avars>>
notTA == <<dvars, evars, qvars, rvars, cvars, lvars, kvars>>

(***************************************************************************)
(* Bounds of the model.                                                    *)
(***************************************************************************)
MaxRetry == 3       \* retry_attempts ranges over -1 .. MaxRetry
MaxCalls == 2       \* _make_request calls per client
MaxHist  == 2       \* longest conversation history stored
MaxTexts == 3       \* longest list of texts given to embed_documents
MaxDocs  == 3       \* longest list of documents given to rerank
MaxTopK  == 2       \* top_k, when given, ranges over -1 .. MaxTopK
MaxMsgs  == 2       \* longest list of messages given to chat / _generate
MaxUses  == 2       \* calls made on one constructed DataRobot client

\* Python's None, and the two shapes a call can end in.
None == [tag |-> "None"]
Value(v) == [tag |-> "value", value |-> v]
Raised(kind) == [tag |-> "raise", kind |-> kind]

(***************************************************************************)
(* AssistantClient._make_request                                           *)
(***************************************************************************)
\* What one session.request / raise_for_status / response.json() can do.
Bodies == {"body1", "body2"}
RequestFailures == {"ConnectionError", "Timeout", "HTTPError"}
Failures == RequestFailures \cup {"JSONDecodeError", "TypeError"}

\* `except requests.exceptions.RequestException`: the transport's own errors
\* and the HTTPError of raise_for_status are caught.  response.json() raises
\* requests.exceptions.JSONDecodeError (a RequestException) in requests >= 2.27
\* and a plain ValueError before; a TypeError (payload that json cannot
\* serialise) is never a RequestException.
\* Mutant: a timeout is not among the exceptions caught.
IsRequestException_noTimeout(kind, newRequests) ==
    \/ kind \in RequestFailures \ {"Timeout"}
    \/ kind = "JSONDecodeError" /\ newRequests

IsRequestException(kind, newRequests) ==
    \/ kind \in RequestFailures
    \/ kind = "JSONDecodeError" /\ newRequests

Ev(ev, detail) == [ev |-> ev, detail |-> detail]
\* The log entry of a request that succeeded, with the body response.json() gave.
OkEv(body) == [ev |-> "request", detail |-> "ok", body |-> body]

\* Mutant: the attempt counter is kept on the client and carried into the next call.
RangeStart_carriedOver(previous) == previous

\* `for attempt in range(...)` builds a new range in every call: whatever the
\* last call left, no value has been taken yet.
RangeStart(previous) == -1

\* Mutant: the parsed body is not returned, the loop goes on.
try_success_noReturn(body, ret) == [pc |-> "for", ret |-> ret]

\* `return response.json()`: the call ends with the parsed body.
try_success(body, ret) == [pc |-> "returned", ret |-> Value(body)]

\* Mutant: the aggregated error carries one attempt less than were made.
AllAttemptsFailed_oneLess(k, e) ==
    [tag |-> "raise", kind |-> "Exception", attempts |-> k - 1, cause |-> e]

\* raise Exception(f"All {self.config.retry_attempts} attempts failed: {e}")
AllAttemptsFailed(k, e) ==
    [tag |-> "raise", kind |-> "Exception", attempts |-> k, cause |-> e]

\* range(k) still has a value after `attempt` (attempt = -1 before the first).
RangeHasNext(att, k) == att + 1 < k

\* Mutant: the bound of the final attempt off by one (attempt < retry_attempts).
AnotherAttemptFollows_offByOne(att, k) == att < k

\* `if attempt < self.config.retry_attempts - 1`: another attempt follows.
AnotherAttemptFollows(att, k) == att < k - 1

TransportIdle ==
    /\ tPc = "noclient"
    /\ retry_attempts = 3
    /\ jsonIsReqExc = TRUE
    /\ attempt = -1
    /\ exc = "none"
    /\ tLog = <<>>
    /\ tRet = None
    /\ calls = 0

\* AssistantClient(config): the config is taken as given, nothing is checked.
AssistantClient_init ==
    /\ tPc = "noclient" /\ uPc = "idle" /\ xPc = "idle"
    /\ \E k \in -1 .. MaxRetry : retry_attempts' = k
    /\ jsonIsReqExc' \in BOOLEAN
    /\ tPc' = "idle"
    /\ UNCHANGED <<attempt, exc, tLog, tRet, calls>>
    /\ UNCHANGED notT

\* A caller enters _make_request (or calls again after the last call ended).
make_request_call ==
    /\ tPc \in {"idle", "returned", "raised"}
    /\ calls < MaxCalls
    /\ calls' = calls + 1
    /\ tPc' = "for"
    /\ attempt' = RangeStart(attempt)
    /\ exc' = "none"
    /\ tLog' = <<>>
    /\ tRet' = None
    /\ UNCHANGED <<retry_attempts, jsonIsReqExc>>
    /\ UNCHANGED notT

\* `for attempt in range(self.config.retry_attempts)`: the next value, or the
\* end of the loop, after which the function body ends and None is returned.
make_request_for ==
    /\ tPc = "for"
    /\ IF RangeHasNext(attempt, retry_attempts)
          THEN /\ attempt' = attempt + 1
               /\ tPc' = "try"
               /\ tRet' = tRet
          ELSE /\ attempt' = attempt
               /\ tPc' = "returned"
               /\ tRet' = None
    /\ UNCHANGED <<retry_attempts, jsonIsReqExc, exc, tLog, calls>>
    /\ UNCHANGED notT

\* The try block: the request succeeds and its parsed body is returned, or it
\* raises; only a RequestException reaches the except clause.
make_request_try ==
    /\ tPc = "try"
    /\ \/ \E b \in Bodies :
            /\ tLog' = Append(tLog, OkEv(b))
            /\ tPc' = try_success(b, tRet).pc
            /\ tRet' = try_success(b, tRet).ret
            /\ exc' = exc
       \/ \E f \in Failures :
            /\ tLog' = Append(tLog, Ev("request", f))
            /\ IF IsRequestException(f, jsonIsReqExc)
                  THEN /\ tPc' = "except"
                       /\ exc' = f
                       /\ tRet' = tRet
                  ELSE /\ tPc' = "raised"
                       /\ exc' = exc
                       /\ tRet' = Raised(f)
    /\ UNCHANGED <<retry_attempts, jsonIsReqExc, attempt, calls>>
    /\ UNCHANGED notT

\* The except clause: warn, then sleep if another attempt follows, else raise
\* Exception("All {retry_attempts} attempts failed: {e}").
make_request_except ==
    /\ tPc = "except"
    /\ tLog' = Append(tLog, Ev("warning", exc))
    /\ IF AnotherAttemptFollows(attempt, retry_attempts)
          THEN /\ tPc' = "sleep"
               /\ tRet' = tRet
          ELSE /\ tPc' = "raised"
               /\ tRet' = AllAttemptsFailed(retry_attempts, exc)
    /\ UNCHANGED <<retry_attempts, jsonIsReqExc, attempt, exc, calls>>
    /\ UNCHANGED notT

\* time.sleep(self.config.retry_delay), then the next iteration.
make_request_sleep ==
    /\ tPc = "sleep"
    /\ tLog' = Append(tLog, Ev("sleep", "retry_delay"))
    /\ tPc' = "for"
    /\ UNCHANGED <<retry_attempts, jsonIsReqExc, attempt, exc, tRet, calls>>
    /\ UNCHANGED notT

(***************************************************************************)
(* Datastore and MockDatabaseClient                                        *)
(***************************************************************************)
Sessions == {"s1", "s2"}
UserIds == {"None", "u1"}          \* user_id: Optional[str]
Turns == {"hi", "yo"}
Times == {"t1", "t2"}
DbNames == {"postgres", "none", "redis", "Postgres", ""}

SeqsUpTo(S, n) == UNION {[1 .. m -> S] : m \in 0 .. n}
Histories == SeqsUpTo(Turns, MaxHist)

\* Mutant: the commented-out redis branch enabled.
SelectBackend_redis(name) ==
    CASE name = "postgres" -> "PostgresClient"
      [] name = "none" -> "MockDatabaseClient"
      [] name = "redis" -> "RedisClient"
      [] OTHER -> "ValueError"

\* Datastore.__init__: the backend class for a database name, or ValueError.
SelectBackend(name) ==
    CASE name = "postgres" -> "PostgresClient"
      [] name = "none" -> "MockDatabaseClient"
      [] OTHER -> "ValueError"

\* Mutant: the dict is rebuilt with the stored session only.
Mock_store_conversation_resetsMap(convs, id, user, hist, last, start) ==
    [s \in {id} |->
        [user_id |-> user, conversation_history |-> hist,
         last_conversation_time |-> last, start_conversation_time |-> start]]

\* MockDatabaseClient.store_conversation: self.conversations[session_id] = {...}
Mock_store_conversation(convs, id, user, hist, last, start) ==
    [s \in DOMAIN convs \cup {id} |->
        IF s = id
           THEN [user_id |-> user, conversation_history |-> hist,
                 last_conversation_time |-> last, start_conversation_time |-> start]
           ELSE convs[s]]

\* MockDatabaseClient.fetch_conversation: self.conversations.get(session_id, None)
Mock_fetch_conversation(convs, id) ==
    IF id \in DOMAIN convs THEN [tag |-> "dict", session |-> convs[id]] ELSE None

\* Mutant: the delete is skipped.
Mock_delete_conversation_noop(convs, id) == convs

\* MockDatabaseClient.delete_conversation: del, when the key is there.
Mock_delete_conversation(convs, id) ==
    IF id \in DOMAIN convs
       THEN [s \in DOMAIN convs \ {id} |-> convs[s]]
       ELSE convs

\* MockDatabaseClient.is_session: session_id in self.conversations
Mock_is_session(convs, id) == id \in DOMAIN convs

\* Datastore.fetch_conversation calls the backend and has no return statement:
\* whatever the backend answered, the caller receives None.
Datastore_fetch_result(backendAnswer) == None

\* Datastore.is_session: return self.database.is_session(session_id)
Datastore_is_session_result(backendAnswer) == backendAnswer

DatastoreIdle ==
    /\ dPc = "new"
    /\ db_name = "none"
    /\ database = "unset"
    /\ conversations = <<>>
    /\ supplied = <<>>
    /\ dCall = [op |-> "none"]

\* Datastore(): reads the configured name and builds the backend.  PostgresClient()
\* connects to the server and may itself raise.
Datastore_init ==
    /\ dPc = "new"
    /\ \E n \in DbNames :
         /\ db_name' = n
         /\ \/ /\ SelectBackend(n) = "ValueError"
               /\ dPc' = "raised"
               /\ database' = "unset"
            \/ /\ SelectBackend(n) # "ValueError"
               /\ dPc' = "constructed"
               /\ database' = SelectBackend(n)
            \/ /\ SelectBackend(n) = "PostgresClient"
               /\ dPc' = "raised"
               /\ database' = "unset"
    /\ UNCHANGED <<conversations, supplied, dCall>>
    /\ UNCHANGED notD

\* The operations below run on a Datastore built over the in-memory backend.
MockSelected == dPc = "constructed" /\ database = "MockDatabaseClient"

Datastore_store_conversation ==
    /\ MockSelected
    /\ \E id \in Sessions, user \in UserIds, hist \in Histories, last \in Times :
         /\ conversations' = Mock_store_conversation(conversations, id, user, hist, last, "t1")
         /\ supplied' = [s \in DOMAIN supplied \cup {id} |->
                            IF s = id THEN hist ELSE supplied[s]]
         /\ dCall' = [op |-> "store", via |-> "Datastore", id |-> id, ret |-> None]
    /\ UNCHANGED <<dPc, db_name, database>>
    /\ UNCHANGED notD

Datastore_fetch_conversation ==
    /\ MockSelected
    /\ \E id \in Sessions :
         dCall' = [op |-> "fetch", via |-> "Datastore", id |-> id,
                   ret |-> Datastore_fetch_result(Mock_fetch_conversation(conversations, id))]
    /\ UNCHANGED <<dPc, db_name, database, conversations, supplied>>
    /\ UNCHANGED notD

\* A caller that reaches past the facade: datastore.database.fetch_conversation(id).
MockDatabaseClient_fetch_conversation ==
    /\ MockSelected
    /\ \E id \in Sessions :
         dCall' = [op |-> "fetch", via |-> "MockDatabaseClient", id |-> id,
                   ret |-> Mock_fetch_conversation(conversations, id)]
    /\ UNCHANGED <<dPc, db_name, database, conversations, supplied>>
    /\ UNCHANGED notD

Datastore_delete_conversation ==
    /\ MockSelected
    /\ \E id \in Sessions :
         /\ conversations' = Mock_delete_conversation(conversations, id)
         /\ supplied' = [s \in DOMAIN supplied \ {id} |-> supplied[s]]
         /\ dCall' = [op |-> "delete", via |-> "Datastore", id |-> id, ret |-> None]
    /\ UNCHANGED <<dPc, db_name, database>>
    /\ UNCHANGED notD

Datastore_is_session ==
    /\ MockSelected
    /\ \E id \in Sessions :
         dCall' = [op |-> "is_session", via |-> "Datastore", id |-> id,
                   ret |-> [tag |-> "bool",
                            b |-> Datastore_is_session_result(Mock_is_session(conversations, id))]]
    /\ UNCHANGED <<dPc, db_name, database, conversations, supplied>>
    /\ UNCHANGED notD

(***************************************************************************)
(* DataRobotEmbeddingsClient.embed_documents                               *)
(***************************************************************************)
TextSet == {"ta", "tb"}
Vectors == {<<1, 2>>, <<3, 4>>}

\* What self._deployment.predict can give for one text: a result whose first
\* element is a vector, or a string that spells one, or a string that spells
\* nothing; an empty result; or the call raises.
Pred(kind, vec, str) == [kind |-> kind, vec |-> vec, str |-> str]
EmbedPredictions ==
    {Pred("list", v, "") : v \in Vectors}
       \cup {Pred("str", <<>>, t) : t \in {"[1, 2]", "[3, 4]", "oops"}}
       \cup {Pred("empty", <<>>, ""), Pred("error", <<>>, "")}

\* eval(embedding) of a string: the list it spells, or an exception.
PyEval(str) ==
    CASE str = "[1, 2]" -> [ok |-> TRUE, vec |-> <<1, 2>>]
      [] str = "[3, 4]" -> [ok |-> TRUE, vec |-> <<3, 4>>]
      [] OTHER -> [ok |-> FALSE, vec |-> <<>>]

Step(raise, list) == [raise |-> raise, list |-> list]

\* Mutant: a text with no prediction is skipped instead of raising.
embed_documents_body_skipEmpty(embs, pred) ==
    CASE pred.kind = "error" -> Step("PredictError", embs)
      [] pred.kind = "empty" -> Step("no", embs)
      [] pred.kind = "str" ->
            IF PyEval(pred.str).ok THEN Step("no", Append(embs, PyEval(pred.str).vec))
                                   ELSE Step("EvalError", embs)
      [] OTHER -> Step("no", Append(embs, pred.vec))

\* The body of `for text in texts`: predict, then append prediction[0] (decoded
\* with eval when it is a string), or raise ValueError when nothing came back.
embed_documents_body(embs, pred) ==
    CASE pred.kind = "error" -> Step("PredictError", embs)
      [] pred.kind = "empty" -> Step("ValueError", embs)
      [] pred.kind = "str" ->
            IF PyEval(pred.str).ok THEN Step("no", Append(embs, PyEval(pred.str).vec))
                                   ELSE Step("EvalError", embs)
      [] OTHER -> Step("no", Append(embs, pred.vec))

EmbeddingsIdle ==
    /\ ePc = "idle"
    /\ texts = <<>>
    /\ eI = 0
    /\ embeddings = <<>>
    /\ ePredLog = <<>>
    /\ eRet = None

\* A caller calls embed_documents itself.
embed_documents_call ==
    /\ ePc = "idle" /\ qPc = "idle"
    /\ texts' \in SeqsUpTo(TextSet, MaxTexts)
    /\ ePc' = "for"
    /\ eI' = 0
    /\ embeddings' = <<>>
    /\ ePredLog' = <<>>
    /\ eRet' = None
    /\ UNCHANGED notE

\* One iteration: the prediction call for the next text and what follows it.
\* Any exception is logged and re-raised by the enclosing except clause.
embed_documents_for ==
    /\ ePc = "for"
    /\ eI < Len(texts)
    /\ \E pred \in EmbedPredictions :
         LET step == embed_documents_body(embeddings, pred) IN
         /\ ePredLog' = Append(ePredLog, [text |-> texts[eI + 1], pred |-> pred])
         /\ eI' = eI + 1
         /\ embeddings' = step.list
         /\ IF step.raise = "no"
               THEN /\ ePc' = "for"
                    /\ eRet' = eRet
               ELSE /\ ePc' = "raised"
                    /\ eRet' = Raised(step.raise)
    /\ UNCHANGED texts
    /\ UNCHANGED notE

\* `return embeddings`, once the loop has taken every text.
embed_documents_return ==
    /\ ePc = "for"
    /\ eI >= Len(texts)
    /\ ePc' = "returned"
    /\ eRet' = [tag |-> "list", value |-> embeddings]
    /\ UNCHANGED <<texts, eI, embeddings, ePredLog>>
    /\ UNCHANGED notE

\* The caller has the result (or the exception); the locals of the call are
\* gone and the client, which keeps nothing from it, can be called again.
embed_documents_exit ==
    /\ ePc \in {"returned", "raised"} /\ qPc = "idle"
    /\ ePc' = "idle"
    /\ texts' = <<>>
    /\ eI' = 0
    /\ embeddings' = <<>>
    /\ ePredLog' = <<>>
    /\ eRet' = None
    /\ UNCHANGED notE

EmbedQueryIdle ==
    /\ qPc = "idle"
    /\ qText = "none"
    /\ qRet = None

\* `return embeddings[0] if embeddings else []`, given the list that
\* embed_documents returned.
embed_query_result(embs) == IF embs # <<>> THEN embs[1] ELSE <<>>

\* embed_query(text): embed_documents([text]) is entered.
embed_query_call ==
    /\ qPc = "idle" /\ ePc = "idle"
    /\ qText' \in TextSet
    /\ qPc' = "embed"
    /\ qRet' = None
    /\ texts' = <<qText'>>
    /\ ePc' = "for"
    /\ eI' = 0
    /\ embeddings' = <<>>
    /\ ePredLog' = <<>>
    /\ eRet' = None
    /\ UNCHANGED notEQ

\* embed_documents has ended: its list is reduced to one vector, or its
\* exception, which embed_query does not catch, leaves embed_query.
embed_query_return ==
    /\ qPc = "embed" /\ ePc \in {"returned", "raised"}
    /\ IF ePc = "returned"
          THEN /\ qRet' = [tag |-> "vector", value |-> embed_query_result(eRet.value)]
               /\ qPc' = "returned"
          ELSE /\ qRet' = eRet
               /\ qPc' = "raised"
    /\ UNCHANGED qText
    /\ UNCHANGED evars
    /\ UNCHANGED notEQ

embed_query_exit ==
    /\ qPc \in {"returned", "raised"}
    /\ qPc' = "idle"
    /\ qText' = "none"
    /\ qRet' = None
    /\ ePc' = "idle"
    /\ texts' = <<>>
    /\ eI' = 0
    /\ embeddings' = <<>>
    /\ ePredLog' = <<>>
    /\ eRet' = None
    /\ UNCHANGED notEQ

(***************************************************************************)
(* DataRobotRerankClient.rerank                                            *)
(***************************************************************************)
DocSet == {"d1", "d2"}
Scores == {1, 2, 3}
NoTopK == [given |-> FALSE, k |-> 0]                \* top_k is None
TopKs == {NoTopK} \cup {[given |-> TRUE, k |-> n] : n \in -1 .. MaxTopK}

\* What self._deployment.predict can give for one document: a result whose
\* first element is a number, or a string; an empty result; or the call raises.
ScorePred(kind, num, str) == [kind |-> kind, num |-> num, str |-> str]
RerankPredictions ==
    {ScorePred("num", n, "") : n \in Scores}
       \cup {ScorePred("str", 0, t) : t \in {"2", "n/a"}}
       \cup {ScorePred("empty", 0, ""), ScorePred("error", 0, "")}

\* float(prediction[0]): a number as it is, a string parsed, or ValueError.
PyFloat(pred) ==
    CASE pred.kind = "num" -> [ok |-> TRUE, val |-> pred.num]
      [] pred.kind = "str" /\ pred.str = "1" -> [ok |-> TRUE, val |-> 1]
      [] pred.kind = "str" /\ pred.str = "2" -> [ok |-> TRUE, val |-> 2]
      [] pred.kind = "str" /\ pred.str = "3" -> [ok |-> TRUE, val |-> 3]
      [] OTHER -> [ok |-> FALSE, val |-> 0]

\* Mutant: the entry records a 1-based position.
rerank_body_oneBased(res, i, doc, pred) ==
    CASE pred.kind = "error" -> Step("PredictError", res)
      [] pred.kind = "empty" -> Step("no", res)
      [] OTHER ->
            IF PyFloat(pred).ok
               THEN Step("no", Append(res, [document |-> doc,
                                            score |-> PyFloat(pred).val,
                                            index |-> i + 1]))
               ELSE Step("ValueError", res)

\* Mutant: a document with no score aborts the call, as in embed_documents.
rerank_body_raiseOnEmpty(res, i, doc, pred) ==
    CASE pred.kind = "error" -> Step("PredictError", res)
      [] pred.kind = "empty" -> Step("ValueError", res)
      [] OTHER ->
            IF PyFloat(pred).ok
               THEN Step("no", Append(res, [document |-> doc,
                                            score |-> PyFloat(pred).val,
                                            index |-> i]))
               ELSE Step("ValueError", res)

\* The body of `for i, doc in enumerate(documents)`: predict; append the entry
\* {document, score, index} when something came back, else only warn.
rerank_body(res, i, doc, pred) ==
    CASE pred.kind = "error" -> Step("PredictError", res)
      [] pred.kind = "empty" -> Step("no", res)
      [] OTHER ->
            IF PyFloat(pred).ok
               THEN Step("no", Append(res, [document |-> doc,
                                            score |-> PyFloat(pred).val,
                                            index |-> i]))
               ELSE Step("ValueError", res)

Reverse(xs) == [i \in 1 .. Len(xs) |-> xs[Len(xs) + 1 - i]]

\* Insert x into the ascending list ys after every entry whose score is not
\* greater: the step of a stable sort.
RECURSIVE InsertStable(_, _)
InsertStable(ys, x) ==
    IF ys = <<>> THEN <<x>>
    ELSE IF ys[Len(ys)].score <= x.score THEN Append(ys, x)
    ELSE Append(InsertStable(SubSeq(ys, 1, Len(ys) - 1), x), ys[Len(ys)])

RECURSIVE StableSortAscending(_)
StableSortAscending(xs) ==
    IF xs = <<>> THEN <<>>
    ELSE InsertStable(StableSortAscending(SubSeq(xs, 1, Len(xs) - 1)), xs[Len(xs)])

\* Mutant: a descending sort that reverses an ascending one, so that entries
\* with equal scores come out in reverse input order.
SortByScoreReverse_unstable(xs) == Reverse(StableSortAscending(xs))

\* results.sort(key=lambda x: x["score"], reverse=True): list.sort is stable
\* also with reverse=True (it reverses, sorts ascending, and reverses back).
SortByScoreReverse(xs) == Reverse(StableSortAscending(Reverse(xs)))

\* xs[:k] in Python: the first k entries, or, for a negative k, all but the
\* last -k entries.
SliceTo(xs, k) ==
    IF k >= 0 THEN SubSeq(xs, 1, IF k < Len(xs) THEN k ELSE Len(xs))
              ELSE SubSeq(xs, 1, Len(xs) + k)

\* `if top_k is not None: results = results[:top_k]`
ApplyTopK(xs, tk) == IF tk.given THEN SliceTo(xs, tk.k) ELSE xs

RerankIdle ==
    /\ rPc = "idle"
    /\ documents = <<>>
    /\ top_k = NoTopK
    /\ rI = 0
    /\ results = <<>>
    /\ rPredLog = <<>>
    /\ rRet = None

rerank_call ==
    /\ rPc = "idle"
    /\ documents' \in SeqsUpTo(DocSet, MaxDocs)
    /\ top_k' \in TopKs
    /\ rPc' = "for"
    /\ rI' = 0
    /\ results' = <<>>
    /\ rPredLog' = <<>>
    /\ rRet' = None
    /\ UNCHANGED notR

\* One iteration: the scoring call for the next document and what follows it.
\* Any exception is logged and re-raised by the enclosing except clause.
rerank_for ==
    /\ rPc = "for"
    /\ rI < Len(documents)
    /\ \E pred \in RerankPredictions :
         LET step == rerank_body(results, rI, documents[rI + 1], pred) IN
         /\ rPredLog' = Append(rPredLog, pred)
         /\ rI' = rI + 1
         /\ results' = step.list
         /\ IF step.raise = "no"
               THEN /\ rPc' = "for"
                    /\ rRet' = rRet
               ELSE /\ rPc' = "raised"
                    /\ rRet' = Raised(step.raise)
    /\ UNCHANGED <<documents, top_k>>
    /\ UNCHANGED notR

\* After the loop: sort in place, cut to top_k, return.
rerank_return ==
    /\ rPc = "for"
    /\ rI >= Len(documents)
    /\ results' = ApplyTopK(SortByScoreReverse(results), top_k)
    /\ rPc' = "returned"
    /\ rRet' = [tag |-> "list", value |-> results']
    /\ UNCHANGED <<documents, top_k, rI, rPredLog>>
    /\ UNCHANGED notR

\* The caller has the result (or the exception); the locals of the call are
\* gone and the client, which keeps nothing from it, can be called again.
rerank_exit ==
    /\ rPc \in {"returned", "raised"}
    /\ rPc' = "idle"
    /\ documents' = <<>>
    /\ top_k' = NoTopK
    /\ rI' = 0
    /\ results' = <<>>
    /\ rPredLog' = <<>>
    /\ rRet' = None
    /\ UNCHANGED notR

(***************************************************************************)
(* DataRobotRerank.compress_documents                                      *)
(***************************************************************************)
\* Document objects: a page content and a metadata dict.  The third one has
\* been through a reranker before and carries its two fields.
Document(content, meta) == [page_content |-> content, metadata |-> meta]
NoMetadata == [k \in {} |-> 0]
DocObjs ==
    {Document("d1", NoMetadata),
     Document("d2", [source |-> "x"]),
     Document("d1", [source |-> "y", rerank_score |-> 9, rerank_rank |-> 7])}
TopNs == -1 .. MaxTopK

\* {**original_doc.metadata, "rerank_score": score, "rerank_rank": rank}: the
\* two keys are set last and replace entries of the same name.
MergeMetadata(meta, score, rank) ==
    [k \in DOMAIN meta \cup {"rerank_score", "rerank_rank"} |->
        IF k = "rerank_score" THEN score
        ELSE IF k = "rerank_rank" THEN rank
        ELSE meta[k]]

\* Mutant: the rank is the number of documents built so far, without the + 1.
Rematerialize_zeroBased(docs, entries) ==
    [j \in 1 .. Len(entries) |->
        Document(docs[entries[j].index + 1].page_content,
                 MergeMetadata(docs[entries[j].index + 1].metadata,
                               entries[j].score, j - 1))]

\* The loop over reranked_results: the j-th new document is built from
\* documents[result["index"]] when j - 1 documents have been appended.
Rematerialize(docs, entries) ==
    [j \in 1 .. Len(entries) |->
        Document(docs[entries[j].index + 1].page_content,
                 MergeMetadata(docs[entries[j].index + 1].metadata,
                               entries[j].score, (j - 1) + 1))]

\* `return documents[:self.top_n]` of the except clause.
Fallback(docs, n) == SliceTo(docs, n)

CompressIdle ==
    /\ cPc = "idle"
    /\ cDocs = <<>>
    /\ top_n = 0
    /\ cRerank = None
    /\ cRet = None

\* compress_documents(documents, query) on a compressor built with top_n:
\* texts are extracted and self._client.rerank(query, texts, top_k=top_n) is
\* entered.
compress_documents_call ==
    /\ cPc = "idle" /\ rPc = "idle"
    /\ cDocs' \in SeqsUpTo(DocObjs, MaxDocs)
    /\ top_n' \in TopNs
    /\ cPc' = "rerank"
    /\ documents' = [i \in 1 .. Len(cDocs') |-> cDocs'[i].page_content]
    /\ top_k' = [given |-> TRUE, k |-> top_n']
    /\ rPc' = "for"
    /\ rI' = 0
    /\ results' = <<>>
    /\ rPredLog' = <<>>
    /\ rRet' = None
    /\ UNCHANGED <<cRerank, cRet>>
    /\ UNCHANGED notRC

\* rerank has ended: the new documents are built from its entries, or, when it
\* raised, the except clause returns the first top_n original documents.
compress_documents_return ==
    /\ cPc = "rerank" /\ rPc \in {"returned", "raised"}
    /\ cRerank' = rRet
    /\ cRet' = [tag |-> "list",
                value |-> IF rPc = "returned" THEN Rematerialize(cDocs, rRet.value)
                                              ELSE Fallback(cDocs, top_n)]
    /\ cPc' = "returned"
    /\ rPc' = "idle"
    /\ documents' = <<>>
    /\ top_k' = NoTopK
    /\ rI' = 0
    /\ results' = <<>>
    /\ rPredLog' = <<>>
    /\ rRet' = None
    /\ UNCHANGED <<cDocs, top_n>>
    /\ UNCHANGED notRC

\* The caller has the documents; the compressor keeps nothing from the call.
compress_documents_exit ==
    /\ cPc = "returned"
    /\ cPc' = "idle"
    /\ cDocs' = <<>>
    /\ top_n' = 0
    /\ cRerank' = None
    /\ cRet' = None
    /\ UNCHANGED rvars
    /\ UNCHANGED notRC

(***************************************************************************)
(* DataRobotLLMClient.chat and DataRobotChatModel                          *)
(***************************************************************************)
\* A Python value with its str() form: a str, whose str() is itself, or
\* something else (a content list, a number).
PyVal(py, s) == [py |-> py, s |-> s]
PyStr(v) == v.s
Contents == {PyVal("str", "be terse"), PyVal("str", "2+2?"), PyVal("list", "['img']")}

\* The dicts chat receives: a role and a content, either of which may be
\* missing; "tool" is a role that is none of system, user, assistant.
Roles == {"system", "user", "assistant", "tool"}
DictMessages ==
    {[role |-> r, content |-> c] : r \in Roles, c \in Contents}
       \cup {[content |-> c] : c \in Contents}
       \cup {[role |-> r] : r \in Roles}

\* The message objects _generate receives.
MessageTypes == {"SystemMessage", "HumanMessage", "AIMessage", "ToolMessage"}
LcMessages == {[type |-> t, content |-> c] : t \in MessageTypes, c \in Contents}

\* dict.get(key, default)
Get(d, key, default) == IF key \in DOMAIN d THEN d[key] ELSE default

\* Mutant: the line of a message does not end in a newline.
PromptLine_noNewline(message) ==
    LET role == Get(message, "role", "user")
        content == Get(message, "content", PyVal("str", "")) IN
    CASE role = "system" -> "System: " \o PyStr(content)
      [] role = "user" -> "User: " \o PyStr(content)
      [] role = "assistant" -> "Assistant: " \o PyStr(content)
      [] OTHER -> ""

\* One iteration of the loop of _format_messages_to_prompt: what the message
\* adds to formatted_prompt.  There is no else branch.
PromptLine(message) ==
    LET role == Get(message, "role", "user")
        content == Get(message, "content", PyVal("str", "")) IN
    CASE role = "system" -> "System: " \o PyStr(content) \o "\n"
      [] role = "user" -> "User: " \o PyStr(content) \o "\n"
      [] role = "assistant" -> "Assistant: " \o PyStr(content) \o "\n"
      [] OTHER -> ""

RECURSIVE PromptLines(_)
PromptLines(msgs) ==
    IF msgs = <<>> THEN ""
    ELSE PromptLines(SubSeq(msgs, 1, Len(msgs) - 1)) \o PromptLine(msgs[Len(msgs)])

\* DataRobotLLMClient._format_messages_to_prompt
format_messages_to_prompt(msgs) == PromptLines(msgs) \o "Assistant:"

\* What self._deployment.predict can give for a prompt: a result whose first
\* element is a text or a number, an empty result, or the call raises.
ChatPredictions ==
    {[kind |-> "list", first |-> PyVal("str", "Four.")],
     [kind |-> "list", first |-> PyVal("int", "4")],
     [kind |-> "empty", first |-> PyVal("str", "")],
     [kind |-> "error", first |-> PyVal("str", "")]}

\* Mutant: an empty result is answered with an empty text.
predict_result_emptyText(pred) ==
    CASE pred.kind = "error" -> Raised("PredictError")
      [] pred.kind = "empty" -> [tag |-> "str", value |-> ""]
      [] OTHER -> [tag |-> "str", value |-> PyStr(pred.first)]

\* DataRobotLLMClient.predict: str(predictions[0]), or ValueError when nothing
\* came back; every exception is logged and re-raised.
predict_result(pred) ==
    CASE pred.kind = "error" -> Raised("PredictError")
      [] pred.kind = "empty" -> Raised("ValueError")
      [] OTHER -> [tag |-> "str", value |-> PyStr(pred.first)]

\* The loop of _generate: the dict built for one message object.
ToDrMessage(m) ==
    CASE m.type = "SystemMessage" -> [role |-> "system", content |-> m.content]
      [] m.type = "HumanMessage" -> [role |-> "user", content |-> m.content]
      [] m.type = "AIMessage" -> [role |-> "assistant", content |-> m.content]
      [] OTHER -> [role |-> "user", content |-> PyVal("str", PyStr(m.content))]

ToDrMessages(msgs) == [i \in 1 .. Len(msgs) |-> ToDrMessage(msgs[i])]

\* ChatResult(generations=[ChatGeneration(message=AIMessage(content=response))])
ChatResult(response) ==
    [generations |-> <<[message |-> [type |-> "AIMessage", content |-> response]]>>]

\* Mutant: the generator yields the result twice.
Yield_twice(items, result) == Append(Append(items, result), result)

\* `yield result`
Yield(items, result) == Append(items, result)

ChatIdle ==
    /\ lPc = "idle"
    /\ messages = <<>>
    /\ prompt = ""
    /\ lPred = [kind |-> "none", first |-> PyVal("str", "")]
    /\ lRet = None
    /\ gPc = "idle"
    /\ lcMessages = <<>>
    /\ gRet = None
    /\ sPc = "none"
    /\ sItems = <<>>

NothingRunning == lPc = "idle" /\ gPc = "idle" /\ sPc = "none"

\* chat(messages): the prompt is built and predict is entered.
EnterChat(msgs) ==
    /\ messages' = msgs
    /\ prompt' = format_messages_to_prompt(msgs)
    /\ lPc' = "predict"
    /\ UNCHANGED <<lPred, lRet>>

\* _generate(messages): the dicts are built and self._client.chat is entered.
EnterGenerate(msgs) ==
    /\ lcMessages' = msgs
    /\ gPc' = "chat"
    /\ EnterChat(ToDrMessages(msgs))
    /\ UNCHANGED gRet

LeaveAll ==
    /\ lPc' = "idle"
    /\ messages' = <<>>
    /\ prompt' = ""
    /\ lPred' = [kind |-> "none", first |-> PyVal("str", "")]
    /\ lRet' = None
    /\ gPc' = "idle"
    /\ lcMessages' = <<>>
    /\ gRet' = None
    /\ sPc' = "none"
    /\ sItems' = <<>>

\* A caller calls DataRobotLLMClient.chat itself.
chat_call ==
    /\ NothingRunning
    /\ \E msgs \in SeqsUpTo(DictMessages, MaxMsgs) : EnterChat(msgs)
    /\ UNCHANGED <<gPc, lcMessages, gRet, sPc, sItems>>
    /\ UNCHANGED notL

\* predict(prompt): the prediction call and what predict makes of it.
chat_predict ==
    /\ lPc = "predict"
    /\ \E pred \in ChatPredictions :
         /\ lPred' = pred
         /\ lRet' = predict_result(pred)
         /\ lPc' = IF predict_result(pred).tag = "raise" THEN "raised" ELSE "returned"
    /\ UNCHANGED <<messages, prompt, gPc, lcMessages, gRet, sPc, sItems>>
    /\ UNCHANGED notL

chat_exit ==
    /\ lPc \in {"returned", "raised"} /\ gPc = "idle"
    /\ LeaveAll
    /\ UNCHANGED notL

\* A caller calls DataRobotChatModel._generate itself.
generate_call ==
    /\ NothingRunning
    /\ \E msgs \in SeqsUpTo(LcMessages, MaxMsgs) : EnterGenerate(msgs)
    /\ UNCHANGED <<sPc, sItems>>
    /\ UNCHANGED notL

\* chat has ended: its text is wrapped into a ChatResult, or its exception is
\* logged and re-raised.
generate_return ==
    /\ gPc = "chat" /\ lPc \in {"returned", "raised"}
    /\ IF lPc = "returned"
          THEN /\ gRet' = [tag |-> "ChatResult", value |-> ChatResult(lRet.value)]
               /\ gPc' = "returned"
          ELSE /\ gRet' = lRet
               /\ gPc' = "raised"
    /\ UNCHANGED <<lPc, messages, prompt, lPred, lRet, lcMessages, sPc, sItems>>
    /\ UNCHANGED notL

generate_exit ==
    /\ gPc \in {"returned", "raised"} /\ sPc = "none"
    /\ LeaveAll
    /\ UNCHANGED notL

\* _stream(messages): calling a generator function runs none of its body.
stream_call ==
    /\ NothingRunning
    /\ lcMessages' \in SeqsUpTo(LcMessages, MaxMsgs)
    /\ sPc' = "created"
    /\ UNCHANGED <<lPc, messages, prompt, lPred, lRet, gPc, gRet, sItems>>
    /\ UNCHANGED notL

\* The first next(): the body starts and enters self._generate(messages, ...).
stream_next ==
    /\ sPc = "created"
    /\ sPc' = "running"
    /\ EnterGenerate(lcMessages)
    /\ UNCHANGED sItems
    /\ UNCHANGED notL

\* _generate has ended inside the generator: `yield result`, or its exception
\* leaves the generator.
stream_yield ==
    /\ sPc = "running" /\ gPc \in {"returned", "raised"}
    /\ IF gPc = "returned"
          THEN /\ sItems' = Yield(sItems, gRet.value)
               /\ sPc' = "suspended"
          ELSE /\ sItems' = sItems
               /\ sPc' = "raised"
    /\ UNCHANGED <<lPc, messages, prompt, lPred, lRet, gPc, lcMessages, gRet>>
    /\ UNCHANGED notL

\* The next() after the yield: the body ends, the generator is exhausted.
stream_stop ==
    /\ sPc = "suspended"
    /\ sPc' = "exhausted"
    /\ UNCHANGED <<lPc, messages, prompt, lPred, lRet, gPc, lcMessages, gRet, sItems>>
    /\ UNCHANGED notL

stream_exit ==
    /\ sPc \in {"exhausted", "raised"}
    /\ LeaveAll
    /\ UNCHANGED notL

(***************************************************************************)
(* Construction of DataRobotLLMClient, DataRobotEmbeddingsClient and       *)
(* DataRobotRerankClient: the three __init__ / _initialize_client are the  *)
(* same code.                                                              *)
(***************************************************************************)
Clients == {"DataRobotLLMClient", "DataRobotEmbeddingsClient", "DataRobotRerankClient"}
DeploymentIds == {"dep1", "dep2"}

\* Deployment.get(deployment_id): the deployment object of that id.
Resolved(id) == [deployment |-> id]
Unresolved == [deployment |-> "None"]

\* Mutant: the except clause logs and does not re-raise, so __init__ returns.
OnInitFailure_swallowed(c) == [pc |-> "constructed", ref |-> TRUE]

\* `except Exception as e: logger.error(...); raise`: the exception leaves
\* _initialize_client and __init__, the caller gets no object.
OnInitFailure(c) == [pc |-> "raised", ref |-> FALSE]

ClientsIdle ==
    /\ kPc = [c \in Clients |-> "none"]
    /\ kConfig = [c \in Clients |-> "none"]
    /\ kDeployment = [c \in Clients |-> Unresolved]
    /\ kRef = [c \in Clients |-> FALSE]
    /\ kUses = [c \in Clients |-> 0]
    /\ kBadUse = FALSE

\* __init__, up to the call of _initialize_client: the fields are set.
Client_init ==
    /\ \E c \in Clients, id \in DeploymentIds :
         /\ kPc[c] = "none"
         /\ kPc' = [kPc EXCEPT ![c] = "initialize"]
         /\ kConfig' = [kConfig EXCEPT ![c] = id]
         /\ kDeployment' = [kDeployment EXCEPT ![c] = Unresolved]
    /\ UNCHANGED <<kRef, kUses, kBadUse>>
    /\ UNCHANGED notK

\* dr.Client(token=..., endpoint=...): it connects, or it raises and the
\* except clause takes over.
Client_connect ==
    /\ \E c \in Clients, ok \in BOOLEAN :
         /\ kPc[c] = "initialize"
         /\ IF ok
               THEN /\ kPc' = [kPc EXCEPT ![c] = "connected"]
                    /\ kRef' = kRef
               ELSE /\ kPc' = [kPc EXCEPT ![c] = OnInitFailure(c).pc]
                    /\ kRef' = [kRef EXCEPT ![c] = OnInitFailure(c).ref]
    /\ UNCHANGED <<kConfig, kDeployment, kUses, kBadUse>>
    /\ UNCHANGED notK

\* self._deployment = Deployment.get(self.config.deployment_id): resolved, and
\* __init__ returns the object; or it raises and the except clause takes over.
Client_get_deployment ==
    /\ \E c \in Clients, ok \in BOOLEAN :
         /\ kPc[c] = "connected"
         /\ IF ok
               THEN /\ kDeployment' = [kDeployment EXCEPT ![c] = Resolved(kConfig[c])]
                    /\ kPc' = [kPc EXCEPT ![c] = "constructed"]
                    /\ kRef' = [kRef EXCEPT ![c] = TRUE]
               ELSE /\ kDeployment' = kDeployment
                    /\ kPc' = [kPc EXCEPT ![c] = OnInitFailure(c).pc]
                    /\ kRef' = [kRef EXCEPT ![c] = OnInitFailure(c).ref]
    /\ UNCHANGED <<kConfig, kUses, kBadUse>>
    /\ UNCHANGED notK

\* predict / embed_documents / rerank on an object the caller holds: each
\* calls self._deployment.predict.
Client_use ==
    /\ \E c \in Clients :
         /\ kRef[c]
         /\ kUses[c] < MaxUses
         /\ kUses' = [kUses EXCEPT ![c] = kUses[c] + 1]
         /\ kBadUse' = (kBadUse \/ kDeployment[c] = Unresolved)
    /\ UNCHANGED <<kPc, kConfig, kDeployment, kRef>>
    /\ UNCHANGED notK

(***************************************************************************)
(* The AssistantClient operations                                          *)
(***************************************************************************)
Operations ==
    {"health_check", "chat", "ask_question", "get_recommendations",
     "analyze_document", "get_conversation_history", "clear_conversation",
     "get_available_models", "get_system_status"}

\* A str argument, and the arguments an Optional parameter can take:
\* None, the empty string, a session id.
Str(s) == [tag |-> "str", s |-> s]
SessionArgs == {None, Str(""), Str("s1")}
\* context: Optional[Dict]: None, or a dict.
ContextArgs == {None, [tag |-> "dict", d |-> [topic |-> "math"]]}

\* Python's truth value of an Optional[str]: None and "" are false.
Truthy(v) == v.tag = "str" /\ v.s # ""

\* `context or {}`
ContextOrEmpty(c) == IF c.tag = "dict" THEN c.d ELSE <<>>

\* `if session_id: d['session_id'] = session_id`
WithSession(dict, session) ==
    IF Truthy(session)
       THEN [k \in DOMAIN dict \cup {"session_id"} |->
                IF k = "session_id" THEN session.s ELSE dict[k]]
       ELSE dict

\* The arguments of the _make_request call an operation makes: method,
\* endpoint, data (the JSON payload, None by default) and, through **kwargs,
\* params (absent unless passed).  The texts and limits are one value each.
Req(method, endpoint, data, params) ==
    [method |-> method, endpoint |-> endpoint, data |-> data, params |-> params]
Dict(d) == [tag |-> "dict", d |-> d]

RequestOf(op, session, context) ==
    CASE op = "health_check" -> Req("GET", "/health", None, None)
      [] op \in {"chat", "ask_question"} ->
            Req("POST", "/chat",
                Dict([message |-> "hi", context |-> ContextOrEmpty(context)]), None)
      [] op = "get_recommendations" ->
            Req("POST", "/recommendations", Dict([query |-> "ml", limit |-> 5]), None)
      [] op = "analyze_document" ->
            Req("POST", "/analyze",
                Dict([document_text |-> "text", analysis_type |-> "general"]), None)
      [] op = "get_conversation_history" ->
            Req("GET", "/conversations", None, Dict(WithSession([limit |-> 50], session)))
      [] op = "clear_conversation" ->
            Req("POST", "/conversations/clear", Dict(WithSession(<<>>, session)), None)
      [] op = "get_available_models" -> Req("GET", "/models", None, None)
      [] OTHER -> Req("GET", "/status", None, None)

\* Mutant: the operation hands out only the "response" field of the body.
operation_result_unwrapped(ret) ==
    IF ret.tag = "value" THEN Value("response") ELSE ret

\* `return self._make_request(...)`: whatever _make_request gave is returned,
\* and an exception of _make_request passes through.
operation_result(ret) == ret

ApiIdle ==
    /\ aPc = "idle"
    /\ aOp = "none"
    /\ aSession = None
    /\ aContext = None
    /\ aReq = None
    /\ aRet = None
    /\ uPc = "idle"
    /\ uRet = None
    /\ xPc = "idle"
    /\ xCmd = "none"
    /\ xArg = None
    /\ xExit = -1
    /\ xFailed = FALSE
    /\ iPc = "idle"

NoCaller == uPc = "idle" /\ xPc = "idle"

\* The operation builds its request and enters _make_request on the client.
EnterOperation(op, session, context) ==
    /\ aOp' = op
    /\ aSession' = session
    /\ aContext' = context
    /\ aReq' = RequestOf(op, session, context)
    /\ aRet' = None
    /\ aPc' = "request"
    /\ tPc' = "for"
    /\ attempt' = RangeStart(attempt)
    /\ exc' = "none"
    /\ tLog' = <<>>
    /\ tRet' = None
    /\ calls' = calls + 1

LeaveOperation ==
    /\ aPc' = "idle"
    /\ aOp' = "none"
    /\ aSession' = None
    /\ aContext' = None
    /\ aReq' = None
    /\ aRet' = None

\* A caller that holds a client calls one of its operations.
operation_call ==
    /\ NoCaller /\ aPc = "idle"
    /\ tPc \in {"idle", "returned", "raised"}
    /\ calls < MaxCalls
    /\ \E op \in Operations, session \in SessionArgs, context \in ContextArgs :
         /\ (op \notin {"get_conversation_history", "clear_conversation"} => session = None)
         /\ (op \notin {"chat", "ask_question"} => context = None)
         /\ EnterOperation(op, session, context)
    /\ UNCHANGED <<retry_attempts, jsonIsReqExc>>
    /\ UNCHANGED <<uPc, uRet, xPc, xCmd, xArg, xExit, xFailed, iPc>>
    /\ UNCHANGED notTA

\* _make_request has ended: the operation ends the same way.
operation_return ==
    /\ aPc = "request" /\ tPc \in {"returned", "raised"}
    /\ aRet' = operation_result(tRet)
    /\ aPc' = tPc
    /\ UNCHANGED <<aOp, aSession, aContext, aReq>>
    /\ UNCHANGED <<uPc, uRet, xPc, xCmd, xArg, xExit, xFailed, iPc>>
    /\ UNCHANGED tvars
    /\ UNCHANGED notTA

operation_exit ==
    /\ NoCaller /\ aPc \in {"returned", "raised"}
    /\ LeaveOperation
    /\ UNCHANGED <<uPc, uRet, xPc, xCmd, xArg, xExit, xFailed, iPc>>
    /\ UNCHANGED tvars
    /\ UNCHANGED notTA

(***************************************************************************)
(* quick_chat, interactive_chat (assistant_client.py) and main of the      *)
(* command-line tool (tools/assistant_cli.py)                              *)
(***************************************************************************)
\* The JSON value a body parses to: an object with the fields the service
\* documents, or a JSON value that is no object.
JsonOf(body) ==
    IF body = "body1" THEN Dict([response |-> "hello", message |-> "cleared"])
                      ELSE [tag |-> "list"]

\* str(e) of the exception an operation ended with.
ErrorText(ret) ==
    IF ret.kind = "Exception"
       THEN "All " \o ToString(ret.attempts) \o " attempts failed: " \o ret.cause
       ELSE ret.kind

\* result.get(key, default) on what an operation returned: the text, or the
\* AttributeError of a value that has no get.
GetField(ret, key, default) ==
    IF ret.tag = "value" /\ JsonOf(ret.value).tag = "dict"
       THEN Str(Get(JsonOf(ret.value).d, key, default))
       ELSE Raised("AttributeError")

\* The body of quick_chat after the client is built: the try block returns the
\* response text, and `except Exception as e: return f"Error: {e}"` turns every
\* exception, of the call or of the .get, into a returned text.
quick_chat_result(ret) ==
    IF ret.tag = "raise" THEN Str("Error: " \o ErrorText(ret))
    ELSE IF GetField(ret, "response", "No response received").tag = "raise"
            THEN Str("Error: " \o ErrorText(GetField(ret, "response", "No response received")))
            ELSE GetField(ret, "response", "No response received")

\* AssistantConfig(base_url=...): retry_attempts keeps its default.
DefaultRetryAttempts == 3

\* quick_chat(message): a client is built and client.chat(message) is entered.
quick_chat_call ==
    /\ NoCaller /\ aPc = "idle" /\ tPc = "noclient"
    /\ retry_attempts' = DefaultRetryAttempts
    /\ jsonIsReqExc' \in BOOLEAN
    /\ EnterOperation("chat", None, None)
    /\ uPc' = "chat"
    /\ UNCHANGED <<uRet, xPc, xCmd, xArg, xExit, xFailed, iPc>>
    /\ UNCHANGED notTA

quick_chat_return ==
    /\ uPc = "chat" /\ aPc \in {"returned", "raised"}
    /\ uRet' = quick_chat_result(aRet)
    /\ uPc' = "returned"
    /\ UNCHANGED <<aPc, aOp, aSession, aContext, aReq, aRet>>
    /\ UNCHANGED <<xPc, xCmd, xArg, xExit, xFailed, iPc>>
    /\ UNCHANGED tvars
    /\ UNCHANGED notTA

\* The process is over: its client and everything the run held are gone.
ForgetClient ==
    /\ tPc' = "noclient"
    /\ retry_attempts' = 3
    /\ jsonIsReqExc' = TRUE
    /\ attempt' = -1
    /\ exc' = "none"
    /\ tLog' = <<>>
    /\ tRet' = None
    /\ calls' = 0

quick_chat_exit ==
    /\ uPc = "returned"
    /\ uPc' = "idle"
    /\ uRet' = None
    /\ LeaveOperation
    /\ ForgetClient
    /\ UNCHANGED <<xPc, xCmd, xArg, xExit, xFailed, iPc>>
    /\ UNCHANGED notTA

Subcommands ==
    {"health", "status", "models", "chat", "ask", "analyze", "recommend",
     "history", "clear"}

\* --session (None unless given) and --context (absent, JSON, or not JSON).
CliArgs == [session : SessionArgs, context : {"absent", "json", "invalid"}]

\* The client operation a one-shot subcommand calls.
OperationOf(cmd) ==
    CASE cmd = "health" -> "health_check"
      [] cmd = "status" -> "get_system_status"
      [] cmd = "models" -> "get_available_models"
      [] cmd = "ask" -> "ask_question"
      [] cmd = "analyze" -> "analyze_document"
      [] cmd = "recommend" -> "get_recommendations"
      [] cmd = "history" -> "get_conversation_history"
      [] OTHER -> "clear_conversation"

\* What printing the result of a command does: json.dumps prints any JSON
\* value; ask and clear read a field with result.get.
Rendering(cmd, ret) ==
    CASE cmd = "ask" -> GetField(ret, "response", "No response received")
      [] cmd = "clear" -> GetField(ret, "message", "History cleared")
      [] OTHER -> Str("json.dumps")

\* The try block of main around a one-shot command: an exception of the
\* service call or of the printing reaches `except Exception`, which returns
\* 1; otherwise main returns 0.
main_exit_code(cmd, ret) ==
    IF ret.tag = "raise" \/ Rendering(cmd, ret).tag = "raise" THEN 1 ELSE 0

\* main: the arguments are parsed; without a command help is printed and 1
\* is returned, otherwise the client is built.
main_start ==
    /\ NoCaller /\ aPc = "idle" /\ tPc = "noclient"
    /\ \E cmd \in Subcommands \cup {"none"}, arg \in CliArgs :
         /\ (cmd \notin {"history", "clear"} => arg.session = None)
         /\ (cmd # "ask" => arg.context = "absent")
         /\ xCmd' = cmd
         /\ xArg' = arg
         /\ IF cmd = "none"
               THEN /\ xPc' = "exited"
                    /\ xExit' = 1
                    /\ UNCHANGED <<tPc, retry_attempts, jsonIsReqExc>>
               ELSE /\ xPc' = "command"
                    /\ xExit' = xExit
                    /\ tPc' = "idle"
                    /\ retry_attempts' = DefaultRetryAttempts
                    /\ jsonIsReqExc' \in BOOLEAN
    /\ UNCHANGED <<attempt, exc, tLog, tRet, calls>>
    /\ UNCHANGED <<aPc, aOp, aSession, aContext, aReq, aRet, uPc, uRet, xFailed, iPc>>
    /\ UNCHANGED notTA

\* The branch of the command: ask with a context that is no JSON returns 1 at
\* once; chat enters interactive_chat; every other command calls its operation.
main_command ==
    /\ xPc = "command"
    /\ IF xCmd = "ask" /\ xArg.context = "invalid"
          THEN /\ xPc' = "exited"
               /\ xExit' = 1
               /\ iPc' = iPc
               /\ UNCHANGED <<aPc, aOp, aSession, aContext, aReq, aRet>>
               /\ UNCHANGED tvars
          ELSE IF xCmd = "chat"
          THEN /\ xPc' = "chat"
               /\ xExit' = xExit
               /\ iPc' = "prompt"
               /\ UNCHANGED <<aPc, aOp, aSession, aContext, aReq, aRet>>
               /\ UNCHANGED tvars
          ELSE /\ xPc' = "calling"
               /\ xExit' = xExit
               /\ iPc' = iPc
               /\ EnterOperation(OperationOf(xCmd), xArg.session,
                                 IF xCmd # "ask" THEN None
                                 ELSE IF xArg.context = "json"
                                    THEN [tag |-> "dict", d |-> [topic |-> "math"]]
                                    ELSE [tag |-> "dict", d |-> <<>>])
               /\ UNCHANGED <<retry_attempts, jsonIsReqExc>>
    /\ UNCHANGED <<uPc, uRet, xCmd, xArg, xFailed>>
    /\ UNCHANGED notTA

\* The operation of a one-shot command has ended: print and return.
main_finish ==
    /\ xPc = "calling" /\ aPc \in {"returned", "raised"}
    /\ xFailed' = (aPc = "raised")
    /\ xExit' = main_exit_code(xCmd, aRet)
    /\ xPc' = "exited"
    /\ UNCHANGED <<aPc, aOp, aSession, aContext, aReq, aRet, uPc, uRet, xCmd, xArg, iPc>>
    /\ UNCHANGED tvars
    /\ UNCHANGED notTA

\* What the user types at the prompt of interactive_chat.
Inputs == {"quit", "help", "", "status", "models", "clear", "hi"}

InputOperation(input) ==
    CASE input = "status" -> "get_system_status"
      [] input = "models" -> "get_available_models"
      [] input = "clear" -> "clear_conversation"
      [] OTHER -> "chat"

\* One turn of `while True`: quit leaves the loop, help and an empty line only
\* print, everything else calls the service.
interactive_input ==
    /\ xPc = "chat" /\ iPc = "prompt"
    /\ \E input \in Inputs :
         IF input = "quit"
            THEN /\ iPc' = "done"
                 /\ UNCHANGED <<aPc, aOp, aSession, aContext, aReq, aRet>>
                 /\ UNCHANGED tvars
            ELSE IF input \in {"help", ""}
            THEN /\ iPc' = iPc
                 /\ UNCHANGED <<aPc, aOp, aSession, aContext, aReq, aRet>>
                 /\ UNCHANGED tvars
            ELSE /\ calls < MaxCalls
                 /\ iPc' = "calling"
                 /\ EnterOperation(InputOperation(input), None, None)
                 /\ UNCHANGED <<retry_attempts, jsonIsReqExc>>
    /\ UNCHANGED <<uPc, uRet, xPc, xCmd, xArg, xExit, xFailed>>
    /\ UNCHANGED notTA

\* The call of the turn has ended: its result is printed, or `except Exception`
\* prints the error; either way the loop goes on.
interactive_result ==
    /\ iPc = "calling" /\ aPc \in {"returned", "raised"}
    /\ xFailed' = (xFailed \/ aPc = "raised")
    /\ iPc' = "prompt"
    /\ LeaveOperation
    /\ UNCHANGED <<uPc, uRet, xPc, xCmd, xArg, xExit>>
    /\ UNCHANGED tvars
    /\ UNCHANGED notTA

\* interactive_chat has returned: main leaves the try block and returns 0.
main_chat_finish ==
    /\ xPc = "chat" /\ iPc = "done"
    /\ xExit' = 0
    /\ xPc' = "exited"
    /\ UNCHANGED <<aPc, aOp, aSession, aContext, aReq, aRet, uPc, uRet, xCmd, xArg, xFailed, iPc>>
    /\ UNCHANGED tvars
    /\ UNCHANGED notTA

main_exit ==
    /\ xPc = "exited"
    /\ xPc' = "idle"
    /\ xCmd' = "none"
    /\ xArg' = None
    /\ xExit' = -1
    /\ xFailed' = FALSE
    /\ iPc' = "idle"
    /\ LeaveOperation
    /\ ForgetClient
    /\ UNCHANGED <<uPc, uRet>>
    /\ UNCHANGED notTA

Init == TransportIdle /\ DatastoreIdle /\ EmbeddingsIdle /\ EmbedQueryIdle /\ RerankIdle
           /\ CompressIdle /\ ChatIdle /\ ClientsIdle /\ ApiIdle

NextTransport ==
    \/ AssistantClient_init
    \/ make_request_call
    \/ make_request_for
    \/ make_request_try
    \/ make_request_except
    \/ make_request_sleep

SpecTransport == Init /\ [][NextTransport]_vars

NextStore ==
    \/ Datastore_init
    \/ Datastore_store_conversation
    \/ Datastore_fetch_conversation
    \/ MockDatabaseClient_fetch_conversation
    \/ Datastore_delete_conversation
    \/ Datastore_is_session

SpecStore == Init /\ [][NextStore]_vars

NextEmbed ==
    \/ embed_documents_call
    \/ embed_documents_for
    \/ embed_documents_return
    \/ embed_documents_exit

SpecEmbed == Init /\ [][NextEmbed]_vars

NextEmbedQuery ==
    \/ embed_documents_call
    \/ embed_documents_for
    \/ embed_documents_return
    \/ embed_documents_exit
    \/ embed_query_call
    \/ embed_query_return
    \/ embed_query_exit

SpecEmbedQuery == Init /\ [][NextEmbedQuery]_vars

NextRerank ==
    \/ rerank_call
    \/ rerank_for
    \/ rerank_return
    \/ rerank_exit

SpecRerank == Init /\ [][NextRerank]_vars

\* compress_documents with the rerank call it makes.
NextCompress ==
    \/ compress_documents_call
    \/ rerank_for
    \/ rerank_return
    \/ compress_documents_return
    \/ compress_documents_exit

SpecCompress == Init /\ [][NextCompress]_vars

NextChat ==
    \/ chat_call
    \/ chat_predict
    \/ chat_exit
    \/ generate_call
    \/ generate_return
    \/ generate_exit
    \/ stream_call
    \/ stream_next
    \/ stream_yield
    \/ stream_stop
    \/ stream_exit

SpecChat == Init /\ [][NextChat]_vars

NextClients ==
    \/ Client_init
    \/ Client_connect
    \/ Client_get_deployment
    \/ Client_use

SpecClients == Init /\ [][NextClients]_vars

NextApi ==
    \/ AssistantClient_init
    \/ operation_call
    \/ make_request_for
    \/ make_request_try
    \/ make_request_except
    \/ make_request_sleep
    \/ operation_return
    \/ operation_exit
    \/ quick_chat_call
    \/ quick_chat_return
    \/ quick_chat_exit
    \/ main_start
    \/ main_command
    \/ main_finish
    \/ interactive_input
    \/ interactive_result
    \/ main_chat_finish
    \/ main_exit

SpecApi == Init /\ [][NextApi]_vars

(***************************************************************************)
(* Properties of _make_request                                             *)
(***************************************************************************)
Min(a, b) == IF a < b THEN a ELSE b
Max(a, b) == IF a > b THEN a ELSE b

CallEnded == tPc \in {"returned", "raised"}
Requests == SelectSeq(tLog, LAMBDA e : e.ev = "request")
Shape(log) == [i \in 1 .. Len(log) |-> log[i].ev]

\* What k failed attempts look like: each is a request and its warning, with
\* one sleep between consecutive attempts and none after the last.
RECURSIVE FailShape(_)
FailShape(k) ==
    IF k <= 1 THEN <<"request", "warning">>
              ELSE <<"request", "warning", "sleep">> \o FailShape(k - 1)

EveryAttemptFailed ==
    \A i \in 1 .. Len(Requests) : Requests[i].detail \in RequestFailures

\* C1: with retry_attempts = k >= 1 and a backend on which every attempt fails
\* (network error, timeout, non-2xx status), a call that has ended has made
\* exactly k requests, slept once between each two consecutive requests (k-1
\* sleeps, none after the last), and ended by raising the aggregated error.
C1_ExactlyKAttemptsThenRaise ==
    (CallEnded /\ retry_attempts >= 1 /\ EveryAttemptFailed) =>
        /\ tPc = "raised"
        /\ tRet.tag = "raise" /\ tRet.kind = "Exception"
        /\ Shape(tLog) = FailShape(retry_attempts)
        /\ Len(Requests) = retry_attempts
        /\ Len(SelectSeq(tLog, LAMBDA e : e.ev = "sleep")) = retry_attempts - 1

C1_Witness ==
    /\ tPc = "raised" /\ retry_attempts = 3 /\ EveryAttemptFailed
    /\ Len(Requests) = 3
    /\ Len(SelectSeq(tLog, LAMBDA e : e.ev = "sleep")) = 2

\* C2: _make_request returns a value only when some attempt completed
\* successfully; when every attempt of the call failed (none succeeded), the
\* call ends by raising and never by returning.
C2_ReturnsOnlyAfterSuccess ==
    CallEnded =>
        /\ tPc = "returned" =>
              \E i \in 1 .. Len(Requests) : Requests[i].detail = "ok"
        /\ (\A i \in 1 .. Len(Requests) : Requests[i].detail # "ok") =>
              tPc = "raised"

\* The failures that are requests' own: the three transport kinds, and the
\* parse failure where the installed requests raises it as its own.
Retried(kind) ==
    kind \in {"ConnectionError", "Timeout", "HTTPError"}
       \/ (kind = "JSONDecodeError" /\ jsonIsReqExc)

\* C19 as stated: whatever the kind of failure, a call with k >= 1 attempts in
\* which no request succeeded has used its whole budget of k requests.
C19_EveryFailureKindRetried ==
    (CallEnded /\ retry_attempts >= 1
        /\ \A i \in 1 .. Len(Requests) : Requests[i].detail # "ok")
      => Len(Requests) = retry_attempts

\* C19, amended: every failure that is a requests exception is handled alike,
\* whatever its kind: it is warned about, and it is followed by a sleep and
\* another request unless it was the last of the budget, when the call raises
\* the aggregated error.  A failure of any other kind ends the call at once
\* with that exception, whatever is left of the budget.
C19_RequestExceptionsRetriedAlike ==
    /\ Len(Requests) <= Max(0, retry_attempts)
    /\ \A p \in 1 .. Len(tLog) :
         (tLog[p].ev = "request" /\ Retried(tLog[p].detail)) =>
            /\ p + 1 <= Len(tLog) => tLog[p + 1] = Ev("warning", tLog[p].detail)
            /\ p + 2 <= Len(tLog) => tLog[p + 2].ev = "sleep"
            /\ p + 3 <= Len(tLog) => tLog[p + 3].ev = "request"
            /\ (CallEnded /\ p + 1 = Len(tLog)) =>
                  /\ Len(Requests) = retry_attempts
                  /\ tRet = [tag |-> "raise", kind |-> "Exception",
                             attempts |-> retry_attempts, cause |-> tLog[p].detail]
            /\ p = Len(tLog) => (tPc = "except" /\ exc = tLog[p].detail)
    /\ \A p \in 1 .. Len(tLog) :
         (tLog[p].ev = "request" /\ tLog[p].detail \in Failures
             /\ ~Retried(tLog[p].detail)) =>
            /\ p = Len(tLog)
            /\ tPc = "raised"
            /\ tRet = Raised(tLog[p].detail)

C19_Witness ==
    /\ tPc = "raised" /\ retry_attempts = 3
    /\ Shape(tLog) = <<"request", "warning", "sleep", "request">>
    /\ Requests[1].detail = "Timeout"
    /\ tRet = Raised("TypeError")

Count(ev) == Len(SelectSeq(tLog, LAMBDA e : e.ev = ev))

\* What the log of a call looks like whose i-th request is the first to succeed.
RECURSIVE SuccessShape(_)
SuccessShape(i) ==
    IF i <= 1 THEN <<"request">>
              ELSE <<"request", "warning", "sleep">> \o SuccessShape(i - 1)

\* C24: when attempt i is the first to succeed, exactly i requests were made,
\* i-1 warnings logged and i-1 delays slept (one after each failed attempt), the
\* body of request i is what the call returns, and nothing follows the success.
C24_FirstSuccessEndsTheCall ==
    \A p \in 1 .. Len(tLog) :
        (tLog[p].ev = "request" /\ tLog[p].detail = "ok") =>
            LET i == Len(Requests) IN
            /\ p = Len(tLog)
            /\ tPc = "returned"
            /\ tRet = Value(tLog[p].body)
            /\ 1 <= i /\ i <= retry_attempts
            /\ \A j \in 1 .. i - 1 : Requests[j].detail # "ok"
            /\ Count("warning") = i - 1
            /\ Count("sleep") = i - 1
            /\ Shape(tLog) = SuccessShape(i)

C24_Witness ==
    /\ tPc = "returned" /\ retry_attempts = 3
    /\ Len(Requests) = 3 /\ Requests[3].detail = "ok"
    /\ tRet = Value("body2")
    /\ Count("sleep") = 2

\* C25: a call whose last permitted attempt failed ends by raising the one
\* aggregated error, which names the number of requests that were made and
\* carries the failure of the last request.
C25_AggregatedErrorNamesCountAndLastFailure ==
    LET n == Len(Requests) IN
    /\ (CallEnded /\ n >= 1 /\ Retried(Requests[n].detail)) =>
          /\ tPc = "raised"
          /\ tRet = [tag |-> "raise", kind |-> "Exception",
                     attempts |-> n, cause |-> Requests[n].detail]
    /\ (tRet.tag = "raise" /\ tRet.kind = "Exception") =>
          /\ tPc = "raised"
          /\ n >= 1
          /\ tRet.attempts = n
          /\ tRet.cause = Requests[n].detail

C25_Witness ==
    /\ tPc = "raised" /\ Len(Requests) = 3
    /\ Requests[1].detail = "Timeout" /\ Requests[3].detail = "HTTPError"
    /\ tRet.kind = "Exception" /\ tRet.attempts = 3 /\ tRet.cause = "HTTPError"

\* C26: whatever integer retry_attempts is, a call that has ended made at least
\* one request, and if it returned, it returned the body of a successful request.
C26_AtLeastOneAttempt ==
    CallEnded =>
        /\ Len(Requests) >= 1
        /\ tPc = "returned" =>
              (tRet.tag = "value" /\ Requests[Len(Requests)].detail = "ok")

FetchedThroughDatastore == dCall.op = "fetch" /\ dCall.via = "Datastore"

\* C3: with store kind "none", store_conversation(id, ..., history, ...) followed
\* by Datastore.fetch_conversation(id), with no delete of id in between, returns
\* a session whose history is exactly the history supplied.
C3_StoreFetchRoundTrip ==
    (FetchedThroughDatastore /\ dCall.id \in DOMAIN supplied) =>
        /\ dCall.ret.tag = "dict"
        /\ dCall.ret.session.conversation_history = supplied[dCall.id]

\* C4: fetch(id) returns the "not found" marker if and only if id is not
\* currently stored; a session stored with an empty history is returned as a
\* session.
C4_NotFoundIffNotStored ==
    FetchedThroughDatastore =>
        ((dCall.ret = None) <=> (dCall.id \notin DOMAIN supplied))

\* C5: after any sequence of store and delete operations on the in-memory
\* backend, is_session(id) is true exactly when the most recent store of id has
\* not been followed by a delete of id.
C5_IsSessionReflectsStoreDelete ==
    /\ \A id \in Sessions :
          Datastore_is_session_result(Mock_is_session(conversations, id))
             <=> id \in DOMAIN supplied
    /\ dCall.op = "is_session" => (dCall.ret.b <=> dCall.id \in DOMAIN supplied)

C5_Witness ==
    /\ dCall.op = "is_session" /\ dCall.id = "s1" /\ dCall.ret.b = FALSE
    /\ DOMAIN conversations = {"s2"}

\* What a step of store or delete leaves alone: every session id but its own.
OthersUntouched(id) ==
    \A s \in Sessions \ {id} :
        /\ s \in DOMAIN conversations' <=> s \in DOMAIN conversations
        /\ s \in DOMAIN conversations => conversations'[s] = conversations[s]

\* C30: in the in-memory backend a store or delete of id leaves the record of
\* every other id as it was; a delete of an id that is not stored changes
\* nothing and returns normally; a store replaces the whole record of id, so
\* that a fetch from the backend returns the history of the latest store.
C30_StoreDeleteFrame ==
    /\ [][/\ dCall'.op \in {"store", "delete"} => OthersUntouched(dCall'.id)
          /\ (dCall'.op = "delete" /\ dCall'.id \notin DOMAIN conversations) =>
                (conversations' = conversations /\ dCall'.ret = None)
          /\ dCall'.op = "delete" => dCall'.id \notin DOMAIN conversations'
          /\ dCall'.op = "store" =>
                /\ dCall'.id \in DOMAIN conversations'
                /\ DOMAIN conversations'[dCall'.id] =
                      {"user_id", "conversation_history",
                       "last_conversation_time", "start_conversation_time"}
                /\ conversations'[dCall'.id].conversation_history = supplied'[dCall'.id]
          /\ dCall'.op \in {"fetch", "is_session"} => conversations' = conversations]_vars
    /\ []((dCall.op = "fetch" /\ dCall.via = "MockDatabaseClient") =>
            IF dCall.id \in DOMAIN supplied
               THEN /\ dCall.ret.tag = "dict"
                    /\ dCall.ret.session = conversations[dCall.id]
                    /\ dCall.ret.session.conversation_history = supplied[dCall.id]
               ELSE dCall.ret = None)

C30_Witness ==
    /\ dCall.op = "fetch" /\ dCall.via = "MockDatabaseClient" /\ dCall.id = "s1"
    /\ dCall.ret.tag = "dict"
    /\ dCall.ret.session.conversation_history = <<"yo", "hi">>
    /\ dCall.ret.session.user_id = "u1"
    /\ "s2" \in DOMAIN conversations
    /\ conversations["s2"].conversation_history = <<>>

\* C6: constructing a Datastore selects the relational backend for "postgres"
\* and the in-memory backend for "none"; for every other name construction
\* raises and no Datastore with a backend is produced.
C6_BackendSelection ==
    /\ dPc = "constructed" =>
          \/ db_name = "postgres" /\ database = "PostgresClient"
          \/ db_name = "none" /\ database = "MockDatabaseClient"
    /\ dPc = "raised" => database = "unset"
    /\ (dPc # "new" /\ db_name \notin {"postgres", "none"}) => dPc = "raised"

C6_Witness == dPc = "raised" /\ db_name = "redis" /\ database = "unset"

(***************************************************************************)
(* Properties of embed_documents                                           *)
(***************************************************************************)
\* The vector a prediction stands for: the list itself, or the list a string
\* result spells.
VectorOf(pred) == IF pred.kind = "list" THEN pred.vec ELSE PyEval(pred.str).vec

\* C7: embed_documents either returns exactly one vector per input text, the
\* i-th being the provider's result for the i-th text, or raises; it never
\* returns a shorter, longer or reordered list.
C7_EmbedLengthAndOrder ==
    /\ ePc \in {"returned", "raised"} => eRet.tag \in {"list", "raise"}
    /\ ePc = "raised" => eRet.tag = "raise"
    /\ ePc = "returned" =>
          /\ eRet.tag = "list"
          /\ Len(eRet.value) = Len(texts)
          /\ Len(ePredLog) = Len(texts)
          /\ \A i \in 1 .. Len(texts) :
                /\ ePredLog[i].text = texts[i]
                /\ ePredLog[i].pred.kind \in {"list", "str"}
                /\ eRet.value[i] = VectorOf(ePredLog[i].pred)

C7_Witness ==
    /\ ePc = "returned"
    /\ texts = <<"ta", "tb", "ta">>
    /\ eRet.value = << <<3, 4>>, <<1, 2>>, <<1, 2>> >>
    /\ ePredLog[2].pred.kind = "str"

\* C28: embed_documents makes one prediction call per text taken, in input
\* order; a call that yields nothing is the last one made: embed_documents has
\* raised ValueError, no call follows it and no vector is returned.
C28_OneCallPerTextStopsAtFirstMiss ==
    /\ Len(ePredLog) = eI /\ eI <= Len(texts)
    /\ \A i \in 1 .. Len(ePredLog) :
         /\ ePredLog[i].text = texts[i]
         /\ ePredLog[i].pred.kind = "empty" =>
               /\ i = Len(ePredLog)
               /\ ePc = "raised"
               /\ eRet = Raised("ValueError")
    /\ ePc = "returned" => Len(ePredLog) = Len(texts)
    /\ ePc = "raised" => eRet.tag = "raise"

C28_Witness ==
    /\ ePc = "raised" /\ Len(texts) = 3
    /\ Len(ePredLog) = 2
    /\ ePredLog[1].pred.kind = "list" /\ ePredLog[2].pred.kind = "empty"
    /\ embeddings # <<>>

\* C18: embed_query(text) returns the first vector of embed_documents([text]);
\* when the provider has nothing for the text (an empty result), embed_query
\* returns an empty vector instead of raising.
C18_QueryDegradesToEmptyVector ==
    qPc \in {"returned", "raised"} =>
        /\ ePredLog[1].pred.kind \in {"list", "str"} /\ ePc = "returned" =>
              qRet = [tag |-> "vector", value |-> eRet.value[1]]
        /\ ePredLog[1].pred.kind = "empty" =>
              (qPc = "returned" /\ qRet = [tag |-> "vector", value |-> <<>>])

(***************************************************************************)
(* Properties of rerank                                                    *)
(***************************************************************************)

\* The documents the provider scored, by position (0-based, as enumerate).
ScoredPositions ==
    {i \in 0 .. Len(rPredLog) - 1 :
        rPredLog[i + 1].kind \in {"num", "str"} /\ PyFloat(rPredLog[i + 1]).ok}

\* C8: the list rerank returns has scores in non-increasing order, and entries
\* with equal scores keep the relative order of their documents in the input.
C8_SortedDescendingStable ==
    rPc = "returned" =>
        \A a, b \in 1 .. Len(rRet.value) :
            a < b =>
               /\ rRet.value[a].score >= rRet.value[b].score
               /\ rRet.value[a].score = rRet.value[b].score =>
                     rRet.value[a].index < rRet.value[b].index

C8_Witness ==
    /\ rPc = "returned"
    /\ Len(rRet.value) = 3
    /\ rRet.value[1].score = 3 /\ rRet.value[1].index = 1
    /\ rRet.value[2].score = 2 /\ rRet.value[2].index = 0
    /\ rRet.value[3].score = 2 /\ rRet.value[3].index = 2

\* C9: for every top_k that is given, the returned list has at most
\* min(len(documents), top_k) entries and holds the highest-scored ones: no
\* scored document left out has a strictly higher score than a returned one.
\* (A length is never negative: for a negative top_k the bound is read as 0,
\* the weakest reading of the claim.)
C9_TopKBoundAndBest ==
    (rPc = "returned" /\ top_k.given) =>
        /\ Len(rRet.value) <= Max(0, Min(Len(documents), top_k.k))
        /\ \A i \in ScoredPositions :
              (\A a \in 1 .. Len(rRet.value) : rRet.value[a].index # i) =>
                 \A a \in 1 .. Len(rRet.value) :
                    ~ (PyFloat(rPredLog[i + 1]).val > rRet.value[a].score)

\* C10: every entry returned refers to an input document: its index is a
\* position of the input list, its document is documents[index], its score is
\* the one the provider returned for that document, and no position appears in
\* two entries.
C10_EntriesAreInputDocuments ==
    rPc = "returned" =>
        /\ \A a \in 1 .. Len(rRet.value) :
              LET e == rRet.value[a] IN
              /\ e.index \in 0 .. Len(documents) - 1
              /\ e.document = documents[e.index + 1]
              /\ e.index \in ScoredPositions
              /\ e.score = PyFloat(rPredLog[e.index + 1]).val
        /\ \A a, b \in 1 .. Len(rRet.value) :
              a # b => rRet.value[a].index # rRet.value[b].index

C10_Witness ==
    /\ rPc = "returned"
    /\ documents = <<"d1", "d1", "d2">>
    /\ Len(rRet.value) = 2
    /\ rRet.value[1] = [document |-> "d2", score |-> 2, index |-> 2]
    /\ rRet.value[2] = [document |-> "d1", score |-> 1, index |-> 1]
    /\ rPredLog[3].kind = "str"


RerankEnded == rPc \in {"returned", "raised"}

\* The scoring calls made so far that came back empty, and whether every call
\* made so far came back (did not raise) with nothing or with a number.
EmptyPositions ==
    {i \in 0 .. Len(rPredLog) - 1 : rPredLog[i + 1].kind = "empty"}
NoScoringCallRaised ==
    \A i \in 1 .. Len(rPredLog) :
        /\ rPredLog[i].kind # "error"
        /\ rPredLog[i].kind = "str" => PyFloat(rPredLog[i]).ok

\* The number of entries xs[:k] keeps of n entries.
KeptOf(n, tk) ==
    IF ~ tk.given THEN n
    ELSE IF tk.k >= 0 THEN Min(n, tk.k) ELSE Max(0, n + tk.k)

\* C11 as stated: whatever documents fail to yield a score, they are skipped
\* and the call still returns the entries of all the others; one document's
\* failure never aborts the batch.
C11_FailureNeverAborts ==
    RerankEnded =>
        /\ rPc = "returned"
        /\ Len(rRet.value) = KeptOf(Cardinality(ScoredPositions), top_k)

\* C11 as amended: documents whose scoring call returns an empty result are
\* skipped, and the call returns the sorted, truncated entries of exactly the
\* others; the call is aborted only by a scoring call that raises or whose
\* result float() cannot parse.
C11_EmptyResultsAreSkipped ==
    /\ (rPc = "raised") <=> (rPc # "idle" /\ ~ NoScoringCallRaised)
    /\ rPc = "returned" =>
          /\ Len(rPredLog) = Len(documents)
          /\ \A a \in 1 .. Len(rRet.value) : rRet.value[a].index \notin EmptyPositions
          /\ Len(rRet.value) = KeptOf(Len(documents) - Cardinality(EmptyPositions), top_k)
          /\ ~ top_k.given =>
                {rRet.value[a].index : a \in 1 .. Len(rRet.value)}
                   = (0 .. Len(documents) - 1) \ EmptyPositions

C11_Witness ==
    /\ rPc = "returned" /\ ~ top_k.given
    /\ Len(documents) = 3
    /\ EmptyPositions = {0, 2}
    /\ Len(rRet.value) = 1 /\ rRet.value[1].index = 1


(***************************************************************************)
(* Properties of compress_documents                                        *)
(***************************************************************************)
\* C12: compress_documents never raises: whenever the rerank call fails it
\* returns the original documents, in their order and unmodified, truncated to
\* the first top_n.  (No document is among "the first top_n" when top_n < 0.)
C12_FailOpenFirstTopN ==
    cPc = "returned" =>
        /\ cRet.tag = "list"
        /\ cRerank.tag = "raise" =>
              cRet.value = SubSeq(cDocs, 1, Max(0, Min(top_n, Len(cDocs))))

RerankSucceeded == cPc = "returned" /\ cRerank.tag = "list"
RerankFields == {"rerank_score", "rerank_rank"}

\* C13 as stated: when reranking succeeds, the j-th returned document has the
\* page content of the input document at the j-th entry's index, all of that
\* document's original metadata, rerank_score = the entry's score and
\* rerank_rank = j.
C13_AllOriginalMetadataKept ==
    RerankSucceeded =>
        /\ Len(cRet.value) = Len(cRerank.value)
        /\ \A j \in 1 .. Len(cRet.value) :
              LET e == cRerank.value[j]
                  o == cDocs[e.index + 1]
                  n == cRet.value[j] IN
              /\ n.page_content = o.page_content
              /\ \A k \in DOMAIN o.metadata :
                    k \in DOMAIN n.metadata /\ n.metadata[k] = o.metadata[k]
              /\ n.metadata["rerank_score"] = e.score
              /\ n.metadata["rerank_rank"] = j

\* C13 as amended: as above, with the original metadata kept under every key
\* other than rerank_score and rerank_rank, which always carry the new score
\* and the rank j, so that ranks are exactly 1..m.
C13_RematerializedInRerankOrder ==
    RerankSucceeded =>
        /\ Len(cRet.value) = Len(cRerank.value)
        /\ \A j \in 1 .. Len(cRet.value) :
              LET e == cRerank.value[j]
                  o == cDocs[e.index + 1]
                  n == cRet.value[j] IN
              /\ n.page_content = o.page_content
              /\ DOMAIN n.metadata = DOMAIN o.metadata \cup RerankFields
              /\ \A k \in DOMAIN o.metadata \ RerankFields :
                    n.metadata[k] = o.metadata[k]
              /\ n.metadata["rerank_score"] = e.score
              /\ n.metadata["rerank_rank"] = j

C13_Witness ==
    /\ RerankSucceeded
    /\ Len(cDocs) = 3 /\ Len(cRet.value) = 2
    /\ cRet.value[1] = Document("d2", [source |-> "x", rerank_score |-> 3, rerank_rank |-> 1])
    /\ cRet.value[2].metadata = [source |-> "y", rerank_score |-> 1, rerank_rank |-> 2]


\* C29: when the scoring call for a document raises, rerank has raised that
\* exception and returned no list, and compress_documents returns the first
\* top_n original documents as they were given, with no annotation added; a
\* result is either all re-materialized documents or all original documents.
\* (No document is among "the first top_n" when top_n < 0.)
C29_ScoringExceptionFailsOpenWhole ==
    /\ \A i \in 1 .. Len(rPredLog) :
         rPredLog[i].kind = "error" =>
            (i = Len(rPredLog) /\ rPc = "raised" /\ rRet = Raised("PredictError"))
    /\ (cPc = "returned" /\ cRerank = Raised("PredictError")) =>
         /\ cRet.value = SubSeq(cDocs, 1, Max(0, Min(top_n, Len(cDocs))))
         /\ \A j \in 1 .. Len(cRet.value) : cRet.value[j] = cDocs[j]

(***************************************************************************)
(* Properties of DataRobotChatModel and DataRobotLLMClient.chat            *)
(***************************************************************************)
StreamStarted == sPc \in {"running", "suspended", "exhausted", "raised"}

\* C14: a stream request produces exactly one item, the whole result of the
\* non-streaming generation for the same messages (the ChatResult around the
\* text chat returned for them), and is exhausted after that one item; before
\* the generation has ended, and when it raised, there is no item.
C14_StreamYieldsTheOneResult ==
    /\ Len(sItems) <= 1
    /\ sPc \in {"suspended", "exhausted"} =>
         /\ Len(sItems) = 1
         /\ gPc = "returned"
         /\ sItems[1] = gRet.value
         /\ sItems[1] = ChatResult(PyStr(lPred.first))
         /\ messages = ToDrMessages(lcMessages)
    /\ sPc \in {"none", "created", "running", "raised"} => sItems = <<>>
    /\ sPc = "raised" => gPc = "raised"

C14_Witness ==
    /\ sPc = "exhausted"
    /\ Len(lcMessages) = 2
    /\ sItems = <<ChatResult("Four.")>>

\* The text the claim gives for one message of a recognized role.
RoleLabel(role) ==
    CASE role = "system" -> "System"
      [] role = "user" -> "User"
      [] role = "assistant" -> "Assistant"
      [] OTHER -> "?"

Recognized(m) == "role" \in DOMAIN m /\ m.role \in {"system", "user", "assistant"}

RECURSIVE Flattened(_)
Flattened(msgs) ==
    IF msgs = <<>> THEN "Assistant:"
    ELSE RoleLabel(Head(msgs).role) \o ": "
           \o PyStr(Get(Head(msgs), "content", PyVal("str", ""))) \o "\n"
           \o Flattened(Tail(msgs))

\* C15: for a list of system/user/assistant messages the prompt handed to
\* predict is the messages' lines "<Role>: <content>" in order, each ended
\* by a newline, followed by the cue "Assistant:".
C15_PromptFlattening ==
    (lPc # "idle" /\ \A i \in 1 .. Len(messages) : Recognized(messages[i]))
        => prompt = Flattened(messages)

C15_Witness ==
    /\ lPc = "returned"
    /\ messages = <<[role |-> "system", content |-> PyVal("str", "be terse")],
                    [role |-> "user", content |-> PyVal("str", "2+2?")]>>
    /\ prompt = "System: be terse\nUser: 2+2?\nAssistant:"

\* A message's line when a role that is not system or assistant counts as user.
CoercedLabel(m) ==
    LET role == Get(m, "role", "user") IN
    IF role \in {"system", "assistant"} THEN RoleLabel(role) ELSE "User"

RECURSIVE FlattenedCoerced(_)
FlattenedCoerced(msgs) ==
    IF msgs = <<>> THEN "Assistant:"
    ELSE CoercedLabel(Head(msgs)) \o ": "
           \o PyStr(Get(Head(msgs), "content", PyVal("str", ""))) \o "\n"
           \o FlattenedCoerced(Tail(msgs))

\* C16: every message given to chat appears in the prompt, a message whose
\* role is none of system, user, assistant as a "User: " line; none is dropped.
C16_UnrecognizedRoleBecomesUser ==
    lPc # "idle" => prompt = FlattenedCoerced(messages)

\* C17: chat returns only for a non-empty prediction result, and then the
\* str() of its first element; for an empty result it raises ValueError.
C17_RaisesOnEmptyElseFirstAsText ==
    /\ lPc = "returned" =>
         /\ lPred.kind = "list"
         /\ lRet = [tag |-> "str", value |-> PyStr(lPred.first)]
    /\ (lPc \in {"returned", "raised"} /\ lPred.kind = "empty") =>
         (lPc = "raised" /\ lRet = Raised("ValueError"))
    /\ lPc = "raised" => lPred.kind \in {"empty", "error"}

C17_Witness ==
    /\ lPc = "raised" /\ lPred.kind = "empty" /\ gPc = "idle"
    /\ Len(messages) = 2


(***************************************************************************)
(* Properties of the construction of the DataRobot clients                 *)
(***************************************************************************)
\* C20: for each of the three clients, an object the caller holds has its
\* deployment resolved (the one its config names); a failed resolution ends
\* the constructor by raising, with no object handed out; so no predict, embed
\* or rerank call ever runs on an unresolved deployment.
C20_ConstructedMeansResolved ==
    /\ \A c \in Clients :
         /\ kRef[c] => (kPc[c] = "constructed" /\ kDeployment[c] = Resolved(kConfig[c]))
         /\ kPc[c] = "constructed" => kRef[c]
         /\ kPc[c] = "raised" => (~kRef[c] /\ kDeployment[c] = Unresolved /\ kUses[c] = 0)
         /\ kUses[c] > 0 => kRef[c]
    /\ ~kBadUse

C20_Witness ==
    /\ kPc["DataRobotLLMClient"] = "raised"
    /\ kPc["DataRobotEmbeddingsClient"] = "constructed"
    /\ kUses["DataRobotEmbeddingsClient"] = 2
    /\ kPc["DataRobotRerankClient"] = "raised"
    /\ kConfig["DataRobotRerankClient"] = "dep2"


(***************************************************************************)
(* Properties of the AssistantClient operations and their callers          *)
(***************************************************************************)
\* The method and endpoint the Assistant HTTP API documents per operation.
Documented(op) ==
    CASE op = "health_check" -> <<"GET", "/health">>
      [] op = "chat" -> <<"POST", "/chat">>
      [] op = "get_recommendations" -> <<"POST", "/recommendations">>
      [] op = "analyze_document" -> <<"POST", "/analyze">>
      [] op = "get_conversation_history" -> <<"GET", "/conversations">>
      [] op = "clear_conversation" -> <<"POST", "/conversations/clear">>
      [] op = "get_available_models" -> <<"GET", "/models">>
      [] op = "get_system_status" -> <<"GET", "/status">>
      [] OTHER -> <<"POST", "/chat">>

\* The dict of a request that can carry a session id: the query parameters of
\* a GET, the payload of a POST.
Carrier == IF aReq.params.tag = "dict" THEN aReq.params.d
           ELSE IF aReq.data.tag = "dict" THEN aReq.data.d ELSE <<>>

\* C21: every operation sends its request through _make_request to its
\* documented method and endpoint and ends exactly as _make_request ended: it
\* returns the very value _make_request returned; get_conversation_history and
\* clear_conversation carry session_id only when a session id was given, and
\* then that id.
C21_OperationsPassThrough ==
    aPc # "idle" =>
        /\ <<aReq.method, aReq.endpoint>> = Documented(aOp)
        /\ "session_id" \in DOMAIN Carrier =>
              /\ aOp \in {"get_conversation_history", "clear_conversation"}
              /\ aSession.tag = "str" /\ aSession.s # ""
              /\ Carrier["session_id"] = aSession.s
        /\ aPc = "request" => tPc # "idle"
        /\ aPc \in {"returned", "raised"} => (aPc = tPc /\ aRet = tRet)

C21_Witness ==
    /\ aPc = "returned" /\ aOp = "get_conversation_history"
    /\ aSession = Str("s1")
    /\ aReq = Req("GET", "/conversations", None, Dict([limit |-> 50, session_id |-> "s1"]))
    /\ aRet = Value("body2")
    /\ Len(Requests) = 2

\* C22: for every subcommand, main returns 1 when a service call the command
\* made failed, and 0 when it made service calls and they all succeeded (a
\* call that succeeds answers with a JSON object, as the API documents).
C22_ExitCodeReflectsServiceCalls ==
    (xPc = "exited" /\ xCmd \in Subcommands) =>
        /\ xFailed => xExit = 1
        /\ (~xFailed /\ calls >= 1 /\ tRet.tag = "value" /\ JsonOf(tRet.value).tag = "dict")
              => xExit = 0

Aggregated == tRet.tag = "raise" /\ tRet.kind = "Exception"

\* C23: when _make_request has raised its aggregated error, the operation that
\* called it has raised it too, and so has quick_chat: neither has returned.
C23_ExhaustedFailureIsRaised ==
    /\ (aPc \in {"returned", "raised"} /\ Aggregated) =>
          (aPc = "raised" /\ aRet = tRet)
    /\ (uPc = "returned" /\ Aggregated) => uRet.tag = "raise"

=============================================================================
